---------------------------- MODULE Spec2Model ----------------------------
(***************************************************************************)
(* Moltbot Analytics data collector (collect_stats.py).                    *)
(*                                                                         *)
(* One invocation of the script runs collect_all_stats() and then          *)
(* git_push().  The state that survives an invocation is the two files     *)
(* data.json and history.json; the Reddit and GitHub endpoints are the     *)
(* environment.  Python and JSON values are modelled as tagged records so  *)
(* that None / null, numbers, objects and lists stay distinguishable and   *)
(* the type errors Python raises on them can be modelled.                  *)
(***************************************************************************)
EXTENDS Integers, Sequences, FiniteSets, TLC

(***************************************************************************)
(* JSON / Python values.                                                   *)
(***************************************************************************)
JNull == [j |-> "null"]
JInt(n) == [j |-> "int", n |-> n]
JStr(s) == [j |-> "str", s |-> s]
JObj(o) == [j |-> "obj", o |-> o]
JList(l) == [j |-> "list", l |-> l]

\* A response body (or a file's text) that is not JSON at all: json() raises.
Unparsable == [j |-> "invalid"]

EmptyDict == [k \in {} |-> JNull]
EmptyObj == JObj(EmptyDict)

IsNull(v) == v.j = "null"
IsInt(v) == v.j = "int"
IsObj(v) == v.j = "obj"
IsList(v) == v.j = "list"

\* dict.get(key, default); the caller has established that d is a dict.
Get(d, k, default) == IF k \in DOMAIN d.o THEN d.o[k] ELSE default

\* Python truthiness, as used by "x or 0" and "if stats:".
Truthy(v) ==
    CASE v.j = "null" -> FALSE
      [] v.j = "int" -> v.n # 0
      [] v.j = "str" -> v.s # ""
      [] v.j = "obj" -> DOMAIN v.o # {}
      [] v.j = "list" -> Len(v.l) > 0
      [] OTHER -> FALSE

\* The items a Python "for" visits (as a list), or Raised when the value is
\* not iterable.  Iterating a dict visits its keys (strings).
RECURSIVE SetToSeq(_)
SetToSeq(S) ==
    IF S = {} THEN <<>>
    ELSE LET x == CHOOSE y \in S : TRUE IN <<JStr(x)>> \o SetToSeq(S \ {x})

Raised == [j |-> "raise"]
DidRaise(v) == v.j = "raise"

Iterate(v) ==
    CASE v.j = "list" -> v
      [] v.j = "obj" -> JList(SetToSeq(DOMAIN v.o))
      [] OTHER -> Raised

\* max(a, b) and round(a / b) for b >= 1.  Python 3 round() rounds a half to
\* the even neighbour.
Max(a, b) == IF a >= b THEN a ELSE b

Round(a, b) ==
    LET q == a \div b
        r == a % b
    IN  IF 2 * r < b THEN q
        ELSE IF 2 * r > b THEN q + 1
        ELSE IF q % 2 = 0 THEN q ELSE q + 1

(***************************************************************************)
(* Configuration (lines 13-20).                                            *)
(***************************************************************************)
SUBREDDITS == <<"clawdbot", "moltbot", "moltbothub", "moltbothq", "moltbotcommunity">>

DaySeconds == 86400

HistoryLimit == 1000

\* GMT+8, in seconds.
TZ == 8 * 3600

(***************************************************************************)
(* HTTP: requests.get either raises (timeout, connection error) or returns *)
(* a response with a status code and a body.                               *)
(***************************************************************************)
NetError == [net |-> "error"]
Http(status, body) == [net |-> "http", status |-> status, body |-> body]

\* resp.json().get('data', {}): Raised when the body is not JSON or not a dict.
JsonData(resp) ==
    IF resp.body = Unparsable \/ ~IsObj(resp.body) THEN Raised
    ELSE Get(resp.body, "data", EmptyObj)

\* Mutant of PostsData: the status of the posts response is not looked at.
PostsDataUnchecked(hot) ==
    LET d == JsonData(hot)
    IN  IF DidRaise(d) \/ ~IsObj(d) THEN Raised
        ELSE Get(d, "children", JList(<<>>))

\* Line 40: the posts of the hot listing, [] on a non-200 status.
PostsData(hot) ==
    IF hot.status # 200 THEN JList(<<>>)
    ELSE LET d == JsonData(hot)
         IN  IF DidRaise(d) \/ ~IsObj(d) THEN Raised
             ELSE Get(d, "children", JList(<<>>))

\* Lines 46-59: the loop over the posts.  acc.raised records an exception
\* thrown by the loop body; the enclosing try turns it into None.
ZeroAcc == [posts_24h |-> 0, comments_24h |-> 0, upvotes_24h |-> 0,
            top_score |-> 0, raised |-> FALSE]

ScanPost(acc, post, day_ago) ==
    IF ~IsObj(post) THEN [acc EXCEPT !.raised = TRUE]
    ELSE LET p == Get(post, "data", EmptyObj)
         IN  IF ~IsObj(p) THEN [acc EXCEPT !.raised = TRUE]
             ELSE LET created == Get(p, "created_utc", JInt(0))
                      comments == Get(p, "num_comments", JInt(0))
                      score == Get(p, "score", JInt(0))
                  IN  IF ~IsInt(created) THEN [acc EXCEPT !.raised = TRUE]
                      ELSE IF ~(created.n > day_ago) THEN acc
                      ELSE IF ~IsInt(comments) \/ ~IsInt(score)
                           THEN [acc EXCEPT !.raised = TRUE]
                      ELSE [posts_24h |-> acc.posts_24h + 1,
                            comments_24h |-> acc.comments_24h + comments.n,
                            upvotes_24h |-> acc.upvotes_24h + score.n,
                            top_score |-> Max(acc.top_score, score.n),
                            raised |-> FALSE]

RECURSIVE ScanPosts(_, _, _, _)
ScanPosts(posts, i, acc, day_ago) ==
    IF acc.raised \/ i > Len(posts) THEN acc
    ELSE ScanPosts(posts, i + 1, ScanPost(acc, posts[i], day_ago), day_ago)

\* Line 65: about.get('accounts_active', 0) or 0
OrZero(v) == IF Truthy(v) THEN v ELSE JInt(0)

\* Lines 61-71: the record returned for an available community.
StatsRecord(subreddit, about, acc) ==
    JObj([name |-> JStr("r/" \o subreddit),
          key |-> JStr(subreddit),
          subscribers |-> Get(about, "subscribers", JInt(0)),
          active |-> OrZero(Get(about, "accounts_active", JInt(0))),
          posts_24h |-> JInt(acc.posts_24h),
          comments |-> JInt(acc.comments_24h),
          avg_score |-> JInt(Round(acc.upvotes_24h, Max(acc.posts_24h, 1))),
          total_upvotes |-> JInt(acc.upvotes_24h),
          top_score |-> JInt(acc.top_score)])

\* Lines 23-75.  aboutResp and hotResp are what the two requests meet; now is
\* the UTC time in seconds.  Every exception ends in "return None".
fetch_subreddit_stats(subreddit, aboutResp, hotResp, now) ==
    IF aboutResp = NetError THEN JNull
    ELSE IF aboutResp.status # 200 THEN JNull
    ELSE LET about == JsonData(aboutResp)
         IN  IF DidRaise(about) THEN JNull
             ELSE IF hotResp = NetError THEN JNull
             ELSE LET posts_data == PostsData(hotResp)
                  IN  IF DidRaise(posts_data) \/ DidRaise(Iterate(posts_data))
                      THEN JNull
                      ELSE LET acc == ScanPosts(Iterate(posts_data).l, 1, ZeroAcc,
                                                now - DaySeconds)
                           IN  IF acc.raised \/ ~IsObj(about) THEN JNull
                               ELSE StatsRecord(subreddit, about, acc)

\* Lines 78-97.
fetch_github_stats(resp) ==
    IF resp = NetError THEN JNull
    ELSE IF resp.status # 200 THEN JNull
    ELSE IF resp.body = Unparsable \/ ~IsObj(resp.body) THEN JNull
    ELSE JObj([stars |-> Get(resp.body, "stargazers_count", JInt(0)),
               forks |-> Get(resp.body, "forks_count", JInt(0)),
               open_issues |-> Get(resp.body, "open_issues_count", JInt(0))])

(***************************************************************************)
(* The two persisted files.  A file is absent, holds text that is not JSON *)
(* (Unparsable), or holds a JSON value.                                    *)
(***************************************************************************)
Absent == [j |-> "absent"]

\* Lines 100-108.
load_history(file) ==
    IF file = Absent \/ file = Unparsable THEN JList(<<>>) ELSE file

\* Lines 111-119.
load_previous_data(file) ==
    IF file = Absent \/ file = Unparsable THEN EmptyObj ELSE file

\* len(x): Raised (TypeError) for None and numbers.  (No file considered here
\* holds a bare JSON string.)
PyLen(v) ==
    CASE v.j = "list" -> JInt(Len(v.l))
      [] v.j = "obj" -> JInt(Cardinality(DOMAIN v.o))
      [] OTHER -> Raised

\* Mutant of DeltaAgainst: a missing previous value counts as 0.
DeltaAgainstZero(current, d, key) ==
    IF ~IsObj(d) THEN Raised
    ELSE LET base == Get(d, key, JInt(0))
         IN  IF ~IsInt(base) THEN Raised ELSE JInt(current - base.n)

\* a - d.get(key, a): Raised when d is not a dict (AttributeError) or the
\* stored value is not a number (TypeError).
DeltaAgainst(current, d, key) ==
    IF ~IsObj(d) THEN Raised
    ELSE LET base == Get(d, key, JInt(current))
         IN  IF ~IsInt(base) THEN Raised ELSE JInt(current - base.n)

\* Mutant of KeepLast: the slice keeps the first 1000 entries.
KeepFirst(history) ==
    IF Len(history) > HistoryLimit
    THEN SubSeq(history, 1, HistoryLimit)
    ELSE history

\* Lines 218-220.
KeepLast(history) ==
    IF Len(history) > HistoryLimit
    THEN SubSeq(history, Len(history) - HistoryLimit + 1, Len(history))
    ELSE history

\* strftime('%Y-%m-%dT%H:%M:%SZ') of the UTC time, strftime('%Y-%m-%d
\* %H:%M:%S') and isoformat() of the GMT+8 time keep the second;
\* strftime('%m/%d %H:%M') keeps the minute.
LocalSecond(t) == t + TZ
LocalMinute(t) == (t + TZ) \div 60

\* Lines 164-184.  Raised when one of the expressions of the literal raises.
BuildData(now, history, totals, stats, gh, prev_reddit, prev_github) ==
    LET points == PyLen(history)
        dSubs == DeltaAgainst(totals.subs, prev_reddit, "total_subscribers")
        dStars == DeltaAgainst(gh.o.stars.n, prev_github, "stars")
        dForks == DeltaAgainst(gh.o.forks.n, prev_github, "forks")
    IN  IF DidRaise(points) \/ DidRaise(dSubs) \/ DidRaise(dStars) \/ DidRaise(dForks)
        THEN Raised
        ELSE JObj([timestamp |-> JInt(now),
                   timestamp_local |-> JInt(LocalSecond(now)),
                   data_points |-> JInt(points.n + 1),
                   reddit |-> JObj([total_subscribers |-> JInt(totals.subs),
                                    delta_subscribers |-> dSubs,
                                    total_active |-> JInt(totals.active),
                                    total_posts_24h |-> JInt(totals.posts),
                                    total_comments |-> JInt(totals.comments),
                                    total_upvotes |-> JInt(totals.upvotes),
                                    subreddits |-> JList(stats)]),
                   github |-> JObj([stars |-> gh.o.stars,
                                    stars_delta |-> dStars,
                                    forks |-> gh.o.forks,
                                    forks_delta |-> dForks,
                                    open_issues |-> gh.o.open_issues])])

\* Mutant of SubFields: the posts and upvotes counters are exchanged.
SubFieldsExchanged(st) ==
    LET key == st.o.key.s
    IN  (key \o "_subs" :> st.o.subscribers)
        @@ (key \o "_active" :> st.o.active)
        @@ (key \o "_posts" :> st.o.total_upvotes)
        @@ (key \o "_upvotes" :> st.o.posts_24h)
        @@ (key \o "_comments" :> st.o.comments)

\* Lines 204-210: the five prefixed counters of one community.
SubFields(st) ==
    LET key == st.o.key.s
    IN  (key \o "_subs" :> st.o.subscribers)
        @@ (key \o "_active" :> st.o.active)
        @@ (key \o "_posts" :> st.o.posts_24h)
        @@ (key \o "_upvotes" :> st.o.total_upvotes)
        @@ (key \o "_comments" :> st.o.comments)

\* An assignment to an existing key overwrites it.
RECURSIVE AddSubs(_, _, _)
AddSubs(entry, stats, i) ==
    IF i > Len(stats) THEN entry
    ELSE AddSubs(SubFields(stats[i]) @@ entry, stats, i + 1)

\* Lines 193-214.
HistoryEntry(now, totals, stats, gh) ==
    JObj([github_stars |-> gh.o.stars,
          github_forks |-> gh.o.forks,
          github_issues |-> gh.o.open_issues]
         @@ AddSubs([timestamp |-> JInt(LocalSecond(now)),
                     time_local |-> JInt(LocalMinute(now)),
                     reddit_total |-> JInt(totals.subs),
                     reddit_active |-> JInt(totals.active),
                     reddit_posts |-> JInt(totals.posts),
                     reddit_comments |-> JInt(totals.comments),
                     reddit_upvotes |-> JInt(totals.upvotes)], stats, 1))

ZeroTotals == [subs |-> 0, active |-> 0, posts |-> 0, comments |-> 0, upvotes |-> 0]

\* Mutant of AddTotals: the active total adds the subscriber count.
AddTotalsMixed(t, st) ==
    [subs |-> t.subs + st.o.subscribers.n,
     active |-> t.active + st.o.subscribers.n,
     posts |-> t.posts + st.o.posts_24h.n,
     comments |-> t.comments + st.o.comments.n,
     upvotes |-> t.upvotes + st.o.total_upvotes.n]

\* Lines 145-149; the caller has established that the counters are numbers.
AddTotals(t, st) ==
    [subs |-> t.subs + st.o.subscribers.n,
     active |-> t.active + st.o.active.n,
     posts |-> t.posts + st.o.posts_24h.n,
     comments |-> t.comments + st.o.comments.n,
     upvotes |-> t.upvotes + st.o.total_upvotes.n]

\* Line 158.
ZeroGithub == JObj([stars |-> JInt(0), forks |-> JInt(0), open_issues |-> JInt(0)])

(***************************************************************************)
(* State.                                                                  *)
(***************************************************************************)
VARIABLES
    dataFile,        \* data.json
    historyFile,     \* history.json
    redditApi,       \* community -> [about, hot]: what the endpoints answer
    githubApi,       \* what the repository endpoint answers
    clock,           \* UTC time in seconds
    runs,            \* invocations of the script so far
    pc,              \* position of the running invocation, "idle" between two
    prev_reddit,     \* locals of collect_all_stats
    prev_github,
    idx,             \* position of the loop over SUBREDDITS
    subreddit_stats,
    totals,
    github,
    raisedAt,        \* the line whose exception ended the invocation, or ""
    gitLog,          \* the git commands run by this invocation, in order,
                     \* each with whether it exited with status 0
    pushResult,      \* what git_push returned: "True", "False", or "" (not yet)
    dataBefore,      \* history variable: data.json when the invocation began
    appended,        \* history variable: every entry ever put in the history
    pointsLog        \* history variable: data_points of each completed run

vars == <<dataFile, historyFile, redditApi, githubApi, clock, runs, pc,
          prev_reddit, prev_github, idx, subreddit_stats, totals, github,
          raisedAt, gitLog, pushResult, dataBefore, appended, pointsLog>>

files == <<dataFile, historyFile>>
world == <<redditApi, githubApi>>
locals == <<prev_reddit, prev_github, idx, subreddit_stats, totals, github>>
ghosts == <<dataBefore, appended, pointsLog>>

MaxRuns == 2

(***************************************************************************)
(* The invocation, step by step.                                           *)
(***************************************************************************)
\* An uncaught exception: the traceback ends the process.
Abort(line) ==
    /\ raisedAt' = line
    /\ pc' = "idle"

\* __main__ up to line 130: the process starts and loads the previous data.
Start ==
    /\ pc = "idle"
    /\ runs < MaxRuns
    /\ runs' = runs + 1
    /\ clock' = clock + 1
    /\ dataBefore' = dataFile
    /\ idx' = 1
    /\ subreddit_stats' = <<>>
    /\ totals' = ZeroTotals
    /\ github' = JNull
    /\ gitLog' = <<>>
    /\ pushResult' = ""
    /\ LET prev == load_previous_data(dataFile)
       IN  IF IsObj(prev)
           THEN /\ prev_reddit' = Get(prev, "reddit", EmptyObj)
                /\ prev_github' = Get(prev, "github", EmptyObj)
                /\ raisedAt' = ""
                /\ pc' = "reddit"
           ELSE /\ UNCHANGED <<prev_reddit, prev_github>>
                /\ Abort("129")
    /\ UNCHANGED <<files, world, appended, pointsLog>>

\* Lines 141-150: one iteration of the loop over SUBREDDITS.
FetchSubreddit ==
    /\ pc = "reddit"
    /\ LET sub == SUBREDDITS[idx]
           stats == fetch_subreddit_stats(sub, redditApi[sub].about,
                                          redditApi[sub].hot, clock)
           next == IF idx = Len(SUBREDDITS) THEN "github" ELSE "reddit"
       IN  IF ~Truthy(stats)
           THEN /\ idx' = idx + 1
                /\ pc' = next
                /\ UNCHANGED <<subreddit_stats, totals, raisedAt>>
           ELSE IF ~IsInt(stats.o.subscribers)
           THEN /\ subreddit_stats' = Append(subreddit_stats, stats)
                /\ Abort("145")
                /\ UNCHANGED <<idx, totals>>
           ELSE IF ~IsInt(stats.o.active)
           THEN /\ subreddit_stats' = Append(subreddit_stats, stats)
                /\ Abort("146")
                /\ UNCHANGED <<idx, totals>>
           ELSE /\ subreddit_stats' = Append(subreddit_stats, stats)
                /\ totals' = AddTotals(totals, stats)
                /\ idx' = idx + 1
                /\ pc' = next
                /\ UNCHANGED raisedAt
    /\ UNCHANGED <<files, world, clock, runs, prev_reddit, prev_github, github,
                   gitLog, pushResult, ghosts>>

\* Lines 154-158.  The progress line formats stars and forks with ",", which
\* raises TypeError for None.
FetchGithub ==
    /\ pc = "github"
    /\ LET gh == fetch_github_stats(githubApi)
       IN  IF ~Truthy(gh)
           THEN /\ github' = ZeroGithub
                /\ pc' = "save"
                /\ UNCHANGED raisedAt
           ELSE IF ~IsInt(gh.o.stars) \/ ~IsInt(gh.o.forks)
           THEN /\ github' = gh
                /\ Abort("156")
           ELSE /\ github' = gh
                /\ pc' = "save"
                /\ UNCHANGED raisedAt
    /\ UNCHANGED <<files, world, clock, runs, prev_reddit, prev_github, idx,
                   subreddit_stats, totals, gitLog, pushResult, ghosts>>

\* The line of the data literal (164-184) that raises first, or "".
BuildDataFault ==
    IF DidRaise(PyLen(load_history(historyFile))) THEN "167"
    ELSE IF DidRaise(DeltaAgainst(totals.subs, prev_reddit, "total_subscribers"))
    THEN "170"
    ELSE IF DidRaise(DeltaAgainst(github.o.stars.n, prev_github, "stars")) THEN "179"
    ELSE IF DidRaise(DeltaAgainst(github.o.forks.n, prev_github, "forks")) THEN "181"
    ELSE ""

\* Lines 161-189: build the snapshot and write data.json.
SaveData ==
    /\ pc = "save"
    /\ LET data == BuildData(clock, load_history(historyFile), totals,
                             subreddit_stats, github, prev_reddit, prev_github)
       IN  IF DidRaise(data)
           THEN /\ Abort(BuildDataFault)
                /\ UNCHANGED dataFile
           ELSE /\ dataFile' = data
                /\ pc' = "history"
                /\ UNCHANGED raisedAt
    /\ UNCHANGED <<historyFile, world, clock, runs, locals, gitLog, pushResult,
                   ghosts>>

\* Lines 191-226: append the entry, keep the last 1000, write history.json.
AppendHistory ==
    /\ pc = "history"
    /\ LET history == load_history(historyFile)
           entry == HistoryEntry(clock, totals, subreddit_stats, github)
       IN  IF ~IsList(history)
           THEN /\ Abort("216")
                /\ UNCHANGED <<historyFile, appended, pointsLog>>
           ELSE /\ historyFile' = JList(KeepLast(Append(history.l, entry)))
                /\ appended' = Append(appended, entry)
                /\ pointsLog' = Append(pointsLog, dataFile.o.data_points.n)
                /\ pc' = "git_add"
                /\ UNCHANGED raisedAt
    /\ UNCHANGED <<dataFile, world, clock, runs, locals, gitLog, pushResult,
                   dataBefore>>

\* Mutant of AfterGit: the exit status is not checked.
AfterGitUnchecked(after, exitOk) == after

\* Lines 235-242: subprocess.run(..., check=True) raises CalledProcessError on
\* a non-zero exit; git_push catches it, skips what is left and returns False.
AfterGit(after, exitOk) == IF exitOk THEN after ELSE "idle"

GitResult(after, exitOk) ==
    IF ~exitOk THEN "False" ELSE IF after = "idle" THEN "True" ELSE ""

\* Line 235.
GitAdd ==
    /\ pc = "git_add"
    /\ \E exitOk \in BOOLEAN :
           /\ gitLog' = Append(gitLog, [cmd |-> "add", ok |-> exitOk])
           /\ pc' = AfterGit("git_commit", exitOk)
           /\ pushResult' = GitResult("git_commit", exitOk)
    /\ UNCHANGED <<files, world, clock, runs, locals, raisedAt, ghosts>>

\* Line 236.
GitCommit ==
    /\ pc = "git_commit"
    /\ \E exitOk \in BOOLEAN :
           /\ gitLog' = Append(gitLog, [cmd |-> "commit", ok |-> exitOk])
           /\ pc' = AfterGit("git_push", exitOk)
           /\ pushResult' = GitResult("git_push", exitOk)
    /\ UNCHANGED <<files, world, clock, runs, locals, raisedAt, ghosts>>

\* Lines 237-239.
GitPush ==
    /\ pc = "git_push"
    /\ \E exitOk \in BOOLEAN :
           /\ gitLog' = Append(gitLog, [cmd |-> "push", ok |-> exitOk])
           /\ pc' = AfterGit("idle", exitOk)
           /\ pushResult' = GitResult("idle", exitOk)
    /\ UNCHANGED <<files, world, clock, runs, locals, raisedAt, ghosts>>

(***************************************************************************)
(* Between two invocations the endpoints may stop answering.               *)
(***************************************************************************)
\* reddit.com answers 404 / 503 for every community from now on.
RedditOutage ==
    /\ pc = "idle"
    /\ redditApi # [c \in DOMAIN redditApi |->
                       [about |-> Http(404, Unparsable), hot |-> Http(503, Unparsable)]]
    /\ redditApi' = [c \in DOMAIN redditApi |->
                        [about |-> Http(404, Unparsable), hot |-> Http(503, Unparsable)]]
    /\ UNCHANGED <<files, githubApi, clock, runs, pc, locals, raisedAt, gitLog,
                   pushResult, ghosts>>

\* api.github.com cannot be reached from now on.
GithubOutage ==
    /\ pc = "idle"
    /\ githubApi # NetError
    /\ githubApi' = NetError
    /\ UNCHANGED <<files, redditApi, clock, runs, pc, locals, raisedAt, gitLog,
                   pushResult, ghosts>>

Next ==
    \/ Start
    \/ FetchSubreddit
    \/ FetchGithub
    \/ SaveData
    \/ AppendHistory
    \/ GitAdd
    \/ GitCommit
    \/ GitPush
    \/ RedditOutage
    \/ GithubOutage

(***************************************************************************)
(* The environment the invocations meet: endpoint answers and file         *)
(* contents.                                                               *)
(***************************************************************************)
\* The time before the first invocation.
Epoch == 2 * DaySeconds

Post(created, comments, score) ==
    JObj([data |-> JObj([created_utc |-> created, num_comments |-> comments,
                         score |-> score])])

Listing(children) == JObj([data |-> JObj([children |-> children])])

AboutBody(subscribers, active) ==
    JObj([data |-> JObj([subscribers |-> subscribers, accounts_active |-> active])])

\* The first invocation runs at Epoch + 1, the second at Epoch + 2.
AtCutoff == Post(JInt(Epoch + 1 - DaySeconds), JInt(9), JInt(99))
Aging == Post(JInt(Epoch + 2 - DaySeconds), JInt(4), JInt(7))
Fresh10 == Post(JInt(Epoch), JInt(1), JInt(10))
Fresh20 == Post(JInt(Epoch), JInt(2), JInt(20))
FreshNullScore == Post(JInt(Epoch), JInt(1), JNull)
StaleNullScore == Post(JInt(Epoch - DaySeconds), JInt(1), JNull)

AboutResponses ==
    { NetError,
      Http(404, Unparsable),
      Http(200, Unparsable),
      Http(200, JList(<<>>)),
      Http(200, EmptyObj),
      Http(200, JObj([data |-> JNull])),
      Http(200, AboutBody(JNull, JInt(5))),
      Http(200, AboutBody(JInt(3), JNull)),
      Http(200, AboutBody(JInt(600), JInt(5))) }

HotResponses ==
    { NetError,
      Http(503, Unparsable),
      Http(200, Unparsable),
      Http(200, EmptyObj),
      Http(200, JObj([data |-> JNull])),
      Http(200, Listing(JNull)),
      Http(200, Listing(JList(<<>>))),
      Http(200, Listing(JList(<<Fresh10, AtCutoff, Fresh20>>))),
      Http(200, Listing(JList(<<Fresh10, Aging>>))),
      Http(200, Listing(JList(<<StaleNullScore, Fresh20>>))),
      Http(200, Listing(JList(<<Fresh10, FreshNullScore>>))) }

GithubResponses ==
    { NetError,
      Http(403, Unparsable),
      Http(200, Unparsable),
      Http(200, JList(<<>>)),
      Http(200, EmptyObj),
      Http(200, JObj([stargazers_count |-> JNull, forks_count |-> JInt(7),
                      open_issues_count |-> JInt(3)])),
      Http(200, JObj([stargazers_count |-> JInt(50), forks_count |-> JInt(7),
                      open_issues_count |-> JNull])),
      Http(200, JObj([stargazers_count |-> JInt(50), forks_count |-> JInt(7),
                      open_issues_count |-> JInt(3)])) }

Down == [about |-> Http(404, Unparsable), hot |-> Http(503, Unparsable)]
Busy == [about |-> Http(200, AboutBody(JInt(600), JInt(5))),
         hot |-> Http(200, Listing(JList(<<Fresh10, AtCutoff, Fresh20>>)))]
Quiet == [about |-> Http(200, AboutBody(JInt(3), JNull)),
          hot |-> Http(503, Unparsable)]
NullSubscribers == [about |-> Http(200, AboutBody(JNull, JInt(5))),
                    hot |-> Http(200, Listing(JList(<<Fresh10, Aging>>)))]

Communities == {SUBREDDITS[i] : i \in 1..Len(SUBREDDITS)}

GithubUp == Http(200, JObj([stargazers_count |-> JInt(50), forks_count |-> JInt(7),
                            open_issues_count |-> JInt(3)]))

\* A snapshot and histories as earlier invocations leave them.
OldStats == <<StatsRecord("clawdbot", AboutBody(JInt(1000), JInt(2)).o.data, ZeroAcc)>>

OldSnapshot ==
    BuildData(Epoch, JList(<<>>), AddTotals(ZeroTotals, OldStats[1]), OldStats,
              JObj([stars |-> JInt(40), forks |-> JInt(9), open_issues |-> JInt(1)]),
              EmptyObj, EmptyObj)

OldHistory(n) == [i \in 1..n |-> HistoryEntry(i, ZeroTotals, <<>>, ZeroGithub)]

DataFiles ==
    { Absent, Unparsable, JNull, JList(<<>>), EmptyObj,
      JObj([reddit |-> JNull]),
      JObj([reddit |-> EmptyObj, github |-> JObj([forks |-> JInt(9)])]),
      JObj([reddit |-> JObj([total_subscribers |-> JNull])]),
      JObj([github |-> JObj([stars |-> JNull, forks |-> JInt(9)])]),
      OldSnapshot }

HistoryFiles ==
    { Absent, Unparsable, JNull, EmptyObj, JObj([note |-> JInt(1)]),
      JList(<<>>), JList(OldHistory(1)),
      JList(OldHistory(HistoryLimit - 1)), JList(OldHistory(HistoryLimit)) }

\* Every combination of community outcomes, over the store an earlier run left.
InitWorlds ==
    /\ redditApi \in [Communities -> {Down, Busy, Quiet, NullSubscribers}]
    /\ githubApi \in {Http(403, Unparsable), GithubUp}
    /\ dataFile = OldSnapshot
    /\ historyFile = JList(OldHistory(1))

\* Every file content, over a world that answers and one that does not.
InitFiles ==
    /\ \/ redditApi = [c \in Communities |-> Busy] /\ githubApi = GithubUp
       \/ redditApi = [c \in Communities |-> Down] /\ githubApi = NetError
    /\ dataFile \in DataFiles
    /\ historyFile \in HistoryFiles

\* Every answer of the endpoints of one community and of the repository.
InitResponses ==
    /\ \E a \in AboutResponses, h \in HotResponses :
           redditApi = [c \in Communities |->
                           IF c = SUBREDDITS[1] THEN [about |-> a, hot |-> h]
                           ELSE Quiet]
    /\ githubApi \in GithubResponses
    /\ dataFile = OldSnapshot
    /\ historyFile = JList(OldHistory(1))

Init ==
    /\ \/ InitWorlds
       \/ InitFiles
       \/ InitResponses
    /\ clock = Epoch
    /\ runs = 0
    /\ pc = "idle"
    /\ prev_reddit = EmptyObj
    /\ prev_github = EmptyObj
    /\ idx = 1
    /\ subreddit_stats = <<>>
    /\ totals = ZeroTotals
    /\ github = JNull
    /\ raisedAt = ""
    /\ gitLog = <<>>
    /\ pushResult = ""
    /\ dataBefore = dataFile
    /\ appended = IF IsList(historyFile) THEN historyFile.l ELSE <<>>
    /\ pointsLog = <<>>

Spec == Init /\ [][Next]_vars

(***************************************************************************)
(* Properties.                                                             *)
(***************************************************************************)
GitPhases == {"git_add", "git_commit", "git_push"}

\* The running (or last) invocation has written data.json: every snapshot
\* carries the time of its run, so a written one differs from the one before.
Wrote == runs > 0 /\ dataFile # dataBefore

\* The same, before the process has exited: the endpoints still answer as they
\* did to this invocation.
WroteAndRunning == Wrote /\ pc # "idle"

\* The running (or last) invocation has returned from collect_all_stats.
Completed ==
    /\ runs > 0
    /\ raisedAt = ""
    /\ pc \in GitPhases \cup {"idle"}

Min(a, b) == IF a <= b THEN a ELSE b

Last(seq) == seq[Len(seq)]

\* What the fetcher returns for a community in the current state of the world.
Fetched(c) ==
    fetch_subreddit_stats(c, redditApi[c].about, redditApi[c].hot, clock)

\* The results of the available communities, in configured order.
RECURSIVE AvailableFrom(_)
AvailableFrom(i) ==
    IF i > Len(SUBREDDITS) THEN <<>>
    ELSE (IF Fetched(SUBREDDITS[i]) = JNull THEN <<>> ELSE <<Fetched(SUBREDDITS[i])>>)
         \o AvailableFrom(i + 1)

RECURSIVE SumOf(_, _, _)
SumOf(stats, field, i) ==
    IF i > Len(stats) THEN 0 ELSE stats[i].o[field].n + SumOf(stats, field, i + 1)

----------------------------------------------------------------------------
\* C1: the persisted history never holds more than 1000 entries and is exactly
\* the most recent min(n, 1000) of the n entries ever appended, in their
\* original order.
C1_HistoryIsRecentSuffix ==
    IsList(historyFile) =>
        LET n == Len(appended)
            k == Min(n, HistoryLimit)
        IN  /\ Len(historyFile.l) <= HistoryLimit
            /\ historyFile.l = SubSeq(appended, n - k + 1, n)

\* A run has appended the 1001st entry to a full history: the oldest is gone.
C1_Witness ==
    /\ Completed
    /\ Len(appended) > HistoryLimit
    /\ Len(historyFile.l) = HistoryLimit
    /\ historyFile.l[1] = appended[Len(appended) - HistoryLimit + 1]
    /\ historyFile.l[1] # appended[1]

----------------------------------------------------------------------------
\* The value the snapshot the run began with holds for a field, or Absent.
Previous(section, key) ==
    IF dataBefore = Absent \/ dataBefore = Unparsable \/ ~IsObj(dataBefore) THEN Absent
    ELSE IF section \notin DOMAIN dataBefore.o THEN Absent
    ELSE IF ~IsObj(dataBefore.o[section]) THEN Absent
    ELSE IF key \notin DOMAIN dataBefore.o[section].o THEN Absent
    ELSE dataBefore.o[section].o[key]

DeltaIs(section, delta, current, key) ==
    LET now == dataFile.o[section].o
    IN  now[delta] = IF Previous(section, key) = Absent THEN JInt(0)
                     ELSE JInt(now[current].n - Previous(section, key).n)

\* C2: each delta of a written snapshot is the current value minus the value
\* of the snapshot persisted before the run, and 0 when there is no previous
\* snapshot or it lacks the field.
C2_DeltasAgainstPrevious ==
    Wrote =>
        /\ DeltaIs("reddit", "delta_subscribers", "total_subscribers", "total_subscribers")
        /\ DeltaIs("github", "stars_delta", "stars", "stars")
        /\ DeltaIs("github", "forks_delta", "forks", "forks")

\* A snapshot written over a previous one with another subscriber count, and
\* one written by a first-ever run with subscribers.
C2_Witness ==
    /\ Wrote
    /\ Previous("reddit", "total_subscribers") # Absent
    /\ Previous("github", "stars") # Absent
    /\ dataFile.o.reddit.o.delta_subscribers.n < 0
    /\ dataFile.o.github.o.stars_delta.n > 0

----------------------------------------------------------------------------
\* C3: the subreddits list of a written snapshot holds exactly the available
\* communities' results in configured order, and every total is the sum over
\* that list.
C3_TotalsOverAvailable ==
    WroteAndRunning =>
        LET r == dataFile.o.reddit.o
            listed == r.subreddits.l
        IN  /\ listed = AvailableFrom(1)
            /\ \A c \in Communities :
                   Fetched(c) = JNull =>
                       \A i \in 1..Len(listed) : listed[i].o.key # JStr(c)
            /\ r.total_subscribers = JInt(SumOf(listed, "subscribers", 1))
            /\ r.total_active = JInt(SumOf(listed, "active", 1))
            /\ r.total_posts_24h = JInt(SumOf(listed, "posts_24h", 1))
            /\ r.total_comments = JInt(SumOf(listed, "comments", 1))
            /\ r.total_upvotes = JInt(SumOf(listed, "total_upvotes", 1))

\* A snapshot written when the first community failed and later ones did not.
C3_Witness ==
    /\ WroteAndRunning
    /\ Fetched(SUBREDDITS[1]) = JNull
    /\ Len(dataFile.o.reddit.o.subreddits.l) = 3
    /\ dataFile.o.reddit.o.total_subscribers.n > 0
    /\ dataFile.o.reddit.o.total_upvotes.n > 0

----------------------------------------------------------------------------
\* C4: when the repository fetch fails, the written snapshot has stars = forks
\* = open_issues = 0 and both deltas 0, whatever the previous snapshot holds.
C4_GithubFailureZeroDeltas ==
    (WroteAndRunning /\ fetch_github_stats(githubApi) = JNull) =>
        LET g == dataFile.o.github.o
        IN  /\ g.stars = JInt(0)
            /\ g.forks = JInt(0)
            /\ g.open_issues = JInt(0)
            /\ g.stars_delta = JInt(0)
            /\ g.forks_delta = JInt(0)

----------------------------------------------------------------------------
\* C5: data_points is strictly greater in every completed run than in every
\* earlier one, also once the history holds 1000 entries.
C5_DataPointsStrictlyIncrease ==
    \A a, b \in 1..Len(pointsLog) : a < b => pointsLog[a] < pointsLog[b]

----------------------------------------------------------------------------
\* C6: no answer of a community or repository endpoint, missing and null
\* fields included, aborts the run.
C6_FetchNeverAborts == raisedAt \notin {"145", "146", "156"}

----------------------------------------------------------------------------
\* C7: no content of data.json or history.json makes the run raise.
C7_FilesNeverAbort == raisedAt \notin {"129", "167", "170", "179", "181", "216"}

----------------------------------------------------------------------------
GitOrder == <<"add", "commit", "push">>

\* Both files hold what the running invocation computed.
FilesOfThisRun ==
    /\ IsObj(dataFile)
    /\ dataFile.o.timestamp = JInt(clock)
    /\ dataFile.o.reddit.o.subreddits = JList(subreddit_stats)
    /\ IsList(historyFile)
    /\ Len(historyFile.l) > 0
    /\ Last(historyFile.l) = HistoryEntry(clock, totals, subreddit_stats, github)

PublisherState ==
    /\ Len(gitLog) <= Len(GitOrder)
    /\ \A i \in 1..Len(gitLog) : gitLog[i].cmd = GitOrder[i]
    /\ (pc \in GitPhases \/ gitLog # <<>>) => (FilesOfThisRun /\ raisedAt = "")
    /\ \A i \in 1..Len(gitLog) :
           ~gitLog[i].ok => (i = Len(gitLog) /\ pc = "idle" /\ pushResult = "False")
    /\ pushResult = "False" => \E i \in 1..Len(gitLog) : ~gitLog[i].ok
    /\ pushResult = "True" <=>
           (Len(gitLog) = Len(GitOrder) /\ \A i \in 1..Len(gitLog) : gitLog[i].ok)

\* No step of git_push writes either file.
GitKeepsFiles == pc \in GitPhases => UNCHANGED files

\* C8: git_push runs add, commit, push in that order and only after both files
\* are written; a failing step is caught, ends the publication with False and
\* no step after it runs; no step changes the files; True is returned exactly
\* when all three steps succeed.
C8_PublisherOrder ==
    /\ []PublisherState
    /\ [][GitKeepsFiles]_vars

\* The commit failed after a successful add: push was skipped, both files kept.
C8_Witness ==
    /\ Len(gitLog) = 2
    /\ gitLog[1].ok
    /\ ~gitLog[2].ok
    /\ pushResult = "False"
    /\ pc = "idle"
    /\ FilesOfThisRun

----------------------------------------------------------------------------
\* A response whose body is not JSON, or not an object with an object under
\* "data".
MalformedBody(resp) ==
    \/ resp.body = Unparsable
    \/ ~IsObj(resp.body)
    \/ ("data" \in DOMAIN resp.body.o /\ ~IsObj(resp.body.o.data))

\* A hot listing whose children cannot be iterated.
MalformedListing(resp) ==
    \/ MalformedBody(resp)
    \/ /\ "data" \in DOMAIN resp.body.o
       /\ "children" \in DOMAIN resp.body.o.data.o
       /\ ~IsList(resp.body.o.data.o.children)

MetadataOf(resp) ==
    IF "data" \in DOMAIN resp.body.o THEN resp.body.o.data ELSE EmptyObj

FetchOutcome(c) ==
    LET a == redditApi[c].about
        h == redditApi[c].hot
        r == Fetched(c)
        metadataFails == a = NetError \/ a.status # 200 \/ MalformedBody(a)
        postsFail == h = NetError \/ (h.status = 200 /\ MalformedListing(h))
    IN  /\ r = JNull \/ (IsObj(r) /\ r.o.key = JStr(c))
        /\ (metadataFails \/ postsFail) => r = JNull
        /\ (~metadataFails /\ h # NetError /\ h.status # 200) =>
               /\ IsObj(r)
               /\ r.o.subscribers = Get(MetadataOf(a), "subscribers", JInt(0))
               /\ r.o.active =
                      (IF Get(MetadataOf(a), "accounts_active", JNull) \in {JNull, JInt(0)}
                       THEN JInt(0) ELSE Get(MetadataOf(a), "accounts_active", JNull))
               /\ r.o.posts_24h = JInt(0)
               /\ r.o.comments = JInt(0)
               /\ r.o.total_upvotes = JInt(0)
               /\ r.o.avg_score = JInt(0)
               /\ r.o.top_score = JInt(0)

----------------------------------------------------------------------------
CounterSuffixes == {"_subs", "_active", "_posts", "_upvotes", "_comments"}

\* C10: after a completed run the last history entry carries the snapshot's
\* totals and repository counters, and the five prefixed counters of exactly
\* the communities the snapshot lists.
C10_EntryMatchesSnapshot ==
    Completed =>
        LET e == Last(historyFile.l).o
            r == dataFile.o.reddit.o
            g == dataFile.o.github.o
            listed == r.subreddits.l
        IN  /\ e.reddit_total = r.total_subscribers
            /\ e.reddit_active = r.total_active
            /\ e.reddit_posts = r.total_posts_24h
            /\ e.reddit_comments = r.total_comments
            /\ e.reddit_upvotes = r.total_upvotes
            /\ e.github_stars = g.stars
            /\ e.github_forks = g.forks
            /\ e.github_issues = g.open_issues
            /\ \A i \in 1..Len(listed) :
                   LET st == listed[i].o
                       key == st.key.s
                   IN  /\ {key \o x : x \in CounterSuffixes} \subseteq DOMAIN e
                       /\ e[key \o "_subs"] = st.subscribers
                       /\ e[key \o "_active"] = st.active
                       /\ e[key \o "_posts"] = st.posts_24h
                       /\ e[key \o "_upvotes"] = st.total_upvotes
                       /\ e[key \o "_comments"] = st.comments
            /\ \A c \in Communities :
                   (\A i \in 1..Len(listed) : listed[i].o.key # JStr(c)) =>
                       {c \o x : x \in CounterSuffixes} \cap DOMAIN e = {}

\* A completed run with a failed community and one with posts in the window.
C10_Witness ==
    /\ Completed
    /\ pc = "idle"
    /\ Len(dataFile.o.reddit.o.subreddits.l) = 2
    /\ "clawdbot_subs" \notin DOMAIN Last(historyFile.l).o
    /\ "moltbot_upvotes" \in DOMAIN Last(historyFile.l).o
    /\ Last(historyFile.l).o["moltbot_upvotes"] = JInt(30)
    /\ Last(historyFile.l).o.reddit_upvotes.n >= 30

=============================================================================
